---- MODULE Spec2Model ----
(***************************************************************************)
(* The superstep engine of the MPI backend of Bulk                         *)
(* (backends/mpi/world_provider.hpp): registration of local regions,       *)
(* put / get / send staging, and the barrier protocol of sync, over a      *)
(* tagged point-to-point transport that is FIFO per (source, destination,  *)
(* tag).                                                                   *)
(***************************************************************************)
EXTENDS Integers, Sequences, FiniteSets, TLC

\* ------------------------------------------------------------------ bounds
NProcs == 3          \* peers of the group (nprocs_)
NVars == 2           \* registrable regions per peer
NFuts == 2           \* unregistered destinations of gets (futures) per peer
RegionLen == 2       \* bytes of every region and of every future
MaxElem == 2         \* largest element size, in bytes
MaxVal == 2          \* user values are 1..MaxVal
MaxOps == 2          \* operations a peer issues in one superstep
MaxSteps == 2        \* supersteps executed
MaxRegs == 2         \* registry calls a peer makes after constructing its variables

\* ------------------------------------------------- constants of the program
sizeof_put_header == 16
sizeof_get_header == 40
sizeof_get_response_header == 16

Procs == 0 .. (NProcs - 1)
VarIdx == 0 .. (NVars - 1)
FutIdx == 0 .. (NFuts - 1)
MemSize == (NVars + NFuts) * RegionLen
Addr == 0 .. (MemSize - 1)
Vals == 1 .. MaxVal
Byte == 0 .. MaxVal
ElemSizes == 1 .. MaxElem

var_put == 0
var_get == 1
var_get_response == 2
message == 3
Tags == {var_put, var_get, var_get_response}

next_processor(s) == (s + 1) % NProcs
prev_processor(s) == (s + NProcs - 1) % NProcs

\* Address of the local image of variable i, and of future j.
VarBase(i) == i * RegionLen
FutBase(j) == (NVars + j) * RegionLen
VarAddrs == {VarBase(i) : i \in VarIdx}
FutAddrs == {FutBase(j) : j \in FutIdx}

\* The bytes of the user's source buffer holding value v, n bytes long.
Rep(v, n) == [i \in 1 .. n |-> ((v + i - 2) % MaxVal) + 1]

VARIABLES
    pc,           \* where each peer is: user code, a phase of sync, or dead
    mem,          \* the memory of each peer, byte by byte
    locations,    \* locations_: the bimap address <-> var id of each peer
    vars,         \* vars_: the next var id of each peer
    put_counts,   \* put_counts_[q] of each peer
    get_counts,   \* get_counts_[q] of each peer
    remote_puts,  \* remote_puts_
    remote_gets,  \* remote_gets_
    local_gets,   \* local_gets_
    chan,         \* transport: chan[tag][dst][src] is the FIFO of frames
    queues,       \* the messages readable in the queue of each peer
    superstep,    \* number of syncs completed by the group
    issued,       \* history: operations each peer issued in this superstep
    done,         \* history: the operations of every completed superstep
    memSync,      \* history: memory of each peer when it last entered sync
    rcvd,         \* history: frames each peer received in its last sync
    regLog,       \* history: the registry calls of each peer and what they returned
    program       \* the family of user programs this run belongs to

vars_all == <<pc, mem, locations, vars, put_counts, get_counts, remote_puts,
              remote_gets, local_gets, chan, queues, superstep, issued, done,
              memSync, rcvd, program, regLog>>

engine == <<locations, vars, put_counts, get_counts, remote_puts,
            remote_gets, local_gets>>

\* ----------------------------------------------------------------- helpers
RECURSIVE SumOver(_, _)
SumOver(f, S) ==
    IF S = {} THEN 0
    ELSE LET x == CHOOSE y \in S : TRUE IN f[x] + SumOver(f, S \ {x})

\* memcpy(dst + a, bytes, Len(bytes)); bytes past the modelled memory are lost.
WriteBytes(m, a, bytes) ==
    [x \in Addr |-> IF x >= a /\ x < a + Len(bytes) THEN bytes[x - a + 1] ELSE m[x]]

\* the n bytes at address a
ReadBytes(m, a, n) == [i \in 1 .. n |-> IF a + i - 1 \in Addr THEN m[a + i - 1] ELSE 0]

\* boost::bimap: left view (address -> id) and right view (id -> address)
LeftHas(L, a) == \E pr \in L : pr[1] = a
RightHas(L, id) == \E pr \in L : pr[2] = id
LeftAt(L, a) == (CHOOSE pr \in L : pr[1] = a)[2]
\* faulty variant, used to test the properties: the right view answers with the first registered address
RightAt_First(L, id) == (CHOOSE pr \in L : \A o \in L : pr[2] <= o[2])[1]
RightAt(L, id) == (CHOOSE pr \in L : pr[2] = id)[1]

FrameLen(tag, f) ==
    IF tag = var_put THEN sizeof_put_header + Len(f.data)
    ELSE IF tag = var_get THEN sizeof_get_header
    ELSE sizeof_get_response_header + Len(f.data)

\* faulty variant, used to test the properties: a frame overtakes the frames sent before it
MPI_Send_Overtaking(c, tag, src, dst, f) ==
    [c EXCEPT ![tag][dst][src] = <<f>> \o @]

\* MPI_Send of frame f from src to dst under tag (buffered by the transport)
MPI_Send(c, tag, src, dst, f) ==
    [c EXCEPT ![tag][dst][src] = Append(@, f)]

\* the sources that have a frame pending for dst under tag
Pending(tag, dst) == {s \in Procs : chan[tag][dst][s] # <<>>}

PopHead(c, tag, src, dst) == [c EXCEPT ![tag][dst][src] = Tail(@)]

Op(kind, dst, variable, size, offset, count, val, target) ==
    [kind |-> kind, dst |-> dst, variable |-> variable, size |-> size,
     offset |-> offset, count |-> count, val |-> val, target |-> target]

\* what each peer issued in the superstep that the last sync ended
prev == done[Len(done)]

Log(p, op) == issued' = [issued EXCEPT ![p] = Append(@, op)]

CanIssue(p) ==
    /\ pc[p] = "user"
    /\ superstep < MaxSteps
    /\ Len(issued[p]) < MaxOps

\* -------------------------------------------------------------------- Init
\* the families of user programs (see the environment below)
Programs == {"ring", "fanin", "puts", "self", "gets", "putget", "stale", "race",
             "order"}

Init ==
    /\ pc = [p \in Procs |-> "user"]
    /\ mem = [p \in Procs |-> [a \in Addr |-> 0]]
    /\ locations = [p \in Procs |-> {}]
    /\ vars = [p \in Procs |-> 0]
    /\ put_counts = [p \in Procs |-> [q \in Procs |-> 0]]
    /\ get_counts = [p \in Procs |-> [q \in Procs |-> 0]]
    /\ remote_puts = [p \in Procs |-> 0]
    /\ remote_gets = [p \in Procs |-> 0]
    /\ local_gets = [p \in Procs |-> 0]
    /\ chan = [t \in Tags |-> [d \in Procs |-> [s \in Procs |-> <<>>]]]
    /\ queues = [p \in Procs |-> <<>>]
    /\ superstep = 0
    /\ issued = [p \in Procs |-> <<>>]
    /\ done = <<>>
    /\ memSync = [p \in Procs |-> [a \in Addr |-> 0]]
    /\ rcvd = [p \in Procs |-> <<>>]
    /\ program \in Programs
    /\ regLog = [p \in Procs |-> <<>>]

\* ------------------------------------------------------------ registration
\* faulty variant, used to test the properties: the id is the number of live entries
register_location_Count(p, location) ==
    /\ pc[p] = "user"
    /\ superstep < MaxSteps
    /\ locations' = [locations EXCEPT ![p] =
            IF LeftHas(@, location) \/ RightHas(@, Cardinality(@)) THEN @
            ELSE @ \cup {<<location, Cardinality(@)>>}]
    /\ vars' = [vars EXCEPT ![p] = @ + 1]
    /\ regLog' = [regLog EXCEPT ![p] = Append(@,
            [call |-> "register", location |-> location,
             id |-> Cardinality(locations[p]),
             present |-> LeftHas(locations[p], location), failed |-> FALSE])]
    /\ UNCHANGED <<pc, mem, put_counts, get_counts, remote_puts, remote_gets,
                   local_gets, chan, queues, program, superstep, issued, done, memSync,
                   rcvd>>

\* register_location_: bimap insert (refused when either key is present, the
\* result of insert is not looked at), then return vars_++.
register_location_(p, location) ==
    /\ pc[p] = "user"
    /\ superstep < MaxSteps
    /\ locations' = [locations EXCEPT ![p] =
            IF LeftHas(@, location) \/ RightHas(@, vars[p]) THEN @
            ELSE @ \cup {<<location, vars[p]>>}]
    /\ vars' = [vars EXCEPT ![p] = @ + 1]
    /\ regLog' = [regLog EXCEPT ![p] = Append(@,
            [call |-> "register", location |-> location, id |-> vars[p],
             present |-> LeftHas(locations[p], location), failed |-> FALSE])]
    /\ UNCHANGED <<pc, mem, put_counts, get_counts, remote_puts, remote_gets,
                   local_gets, chan, queues, program, superstep, issued, done, memSync,
                   rcvd>>

\* faulty variant, used to test the properties: the entry is not erased
unregister_location_Keep(p, location) ==
    /\ pc[p] = "user"
    /\ superstep < MaxSteps
    /\ regLog' = [regLog EXCEPT ![p] = Append(@,
            [call |-> "unregister", location |-> location,
             id |-> IF LeftHas(locations[p], location)
                    THEN LeftAt(locations[p], location) ELSE -1,
             present |-> LeftHas(locations[p], location), failed |-> FALSE])]
    /\ UNCHANGED <<pc, mem, locations, vars, put_counts, get_counts, remote_puts,
                   remote_gets, local_gets, chan, queues, program, superstep, issued,
                   done, memSync, rcvd>>

\* unregister_location_: locations_.left.erase(location)
unregister_location_(p, location) ==
    /\ pc[p] = "user"
    /\ superstep < MaxSteps
    /\ locations' = [locations EXCEPT ![p] = {pr \in @ : pr[1] # location}]
    /\ regLog' = [regLog EXCEPT ![p] = Append(@,
            [call |-> "unregister", location |-> location,
             id |-> IF LeftHas(locations[p], location)
                    THEN LeftAt(locations[p], location) ELSE -1,
             present |-> LeftHas(locations[p], location), failed |-> FALSE])]
    /\ UNCHANGED <<pc, mem, vars, put_counts, get_counts, remote_puts,
                   remote_gets, local_gets, chan, queues, program, superstep, issued,
                   done, memSync, rcvd>>

\* ------------------------------------------------------------- user code
\* var::operator=(const T&) / value(): the owner assigns its local image.
LocalWrite(p, variable, size, offset, v) ==
    /\ CanIssue(p)
    /\ mem' = [mem EXCEPT ![p] = WriteBytes(@, variable + size * offset, Rep(v, size))]
    /\ Log(p, Op("write", p, variable, size, offset, 1, v, 0))
    /\ UNCHANGED <<pc, engine, chan, queues, program, regLog, superstep, done, memSync, rcvd>>

\* faulty variant, used to test the properties: the copy to self forgets the offset
put_to_self_AtBase(m, v, variable, size, offset, count) ==
    WriteBytes(m, variable, Rep(v, count * size))

\* put_to_self_
put_to_self_(m, v, variable, size, offset, count) ==
    WriteBytes(m, variable + size * offset, Rep(v, count * size))

\* get_from_self_
get_from_self_(m, variable, target, size, offset, count) ==
    WriteBytes(m, target, ReadBytes(m, variable + size * offset, count * size))

\* faulty variant, used to test the properties: a remote put is written into the receiver's memory at the call
internal_put_Eager(p, processor, v, variable, size, offset, count) ==
    /\ CanIssue(p)
    /\ Log(p, Op("put", processor, variable, size, offset, count, v, 0))
    /\ mem' = [mem EXCEPT ![processor] =
                 put_to_self_(@, v, variable, size, offset, count)]
    /\ UNCHANGED <<pc, chan, put_counts>>
    /\ UNCHANGED <<locations, vars, get_counts, remote_puts, remote_gets,
                   local_gets, queues, program, regLog, superstep, done, memSync, rcvd>>

\* faulty variant, used to test the properties: a remote put is also copied into the sender's own image
internal_put_Mirror(p, processor, v, variable, size, offset, count) ==
    /\ CanIssue(p)
    /\ Log(p, Op("put", processor, variable, size, offset, count, v, 0))
    /\ mem' = [mem EXCEPT ![p] = put_to_self_(@, v, variable, size, offset, count)]
    /\ IF processor = p \/ ~LeftHas(locations[p], variable)
       THEN UNCHANGED <<chan, put_counts>>
       ELSE /\ chan' = MPI_Send(chan, var_put, p, processor,
                         [var_id |-> LeftAt(locations[p], variable),
                          data_offset |-> offset * size,
                          data |-> Rep(v, size * count)])
            /\ put_counts' = [put_counts EXCEPT ![p][processor] = @ + 1]
    /\ UNCHANGED <<pc, locations, vars, get_counts, remote_puts, remote_gets,
                   local_gets, queues, program, regLog, superstep, done, memSync, rcvd>>

\* internal_put_(processor, value, variable, size, offset, count)
internal_put_(p, processor, v, variable, size, offset, count) ==
    /\ CanIssue(p)
    /\ Log(p, Op("put", processor, variable, size, offset, count, v, 0))
    /\ IF processor = p
       THEN /\ mem' = [mem EXCEPT ![p] =
                        put_to_self_(@, v, variable, size, offset, count)]
            /\ UNCHANGED <<pc, chan, put_counts>>
       ELSE IF ~LeftHas(locations[p], variable)
       THEN \* locations_.left.at throws std::out_of_range
            /\ pc' = [pc EXCEPT ![p] = "error"]
            /\ UNCHANGED <<mem, chan, put_counts>>
       ELSE /\ chan' = MPI_Send(chan, var_put, p, processor,
                         [var_id |-> LeftAt(locations[p], variable),
                          data_offset |-> offset * size,
                          data |-> Rep(v, size * count)])
            /\ put_counts' = [put_counts EXCEPT ![p][processor] = @ + 1]
            /\ UNCHANGED <<pc, mem>>
    /\ UNCHANGED <<locations, vars, get_counts, remote_puts, remote_gets,
                   local_gets, queues, program, regLog, superstep, done, memSync, rcvd>>

\* faulty variant, used to test the properties: a remote get does not count in local_gets_
internal_get_NoLocalCount(p, processor, variable, target, size, offset, count) ==
    /\ CanIssue(p)
    /\ Log(p, Op("get", processor, variable, size, offset, count, 0, target))
    /\ IF processor = p
       THEN /\ mem' = [mem EXCEPT ![p] =
                        get_from_self_(@, variable, target, size, offset, count)]
            /\ UNCHANGED <<pc, chan, get_counts, local_gets>>
       ELSE IF ~LeftHas(locations[p], variable)
       THEN /\ pc' = [pc EXCEPT ![p] = "error"]
            /\ UNCHANGED <<mem, chan, get_counts, local_gets>>
       ELSE /\ chan' = MPI_Send(chan, var_get, p, processor,
                         [var_id |-> LeftAt(locations[p], variable),
                          data_offset |-> offset * size,
                          count |-> count, size |-> size, target |-> target])
            /\ get_counts' = [get_counts EXCEPT ![p][processor] = @ + 1]
            /\ UNCHANGED <<pc, mem, local_gets>>
    /\ UNCHANGED <<locations, vars, put_counts, remote_puts, remote_gets,
                   queues, program, regLog, superstep, done, memSync, rcvd>>

\* internal_get_(processor, variable, target, size, offset, count)
internal_get_(p, processor, variable, target, size, offset, count) ==
    /\ CanIssue(p)
    /\ Log(p, Op("get", processor, variable, size, offset, count, 0, target))
    /\ IF processor = p
       THEN /\ mem' = [mem EXCEPT ![p] =
                        get_from_self_(@, variable, target, size, offset, count)]
            /\ UNCHANGED <<pc, chan, get_counts, local_gets>>
       ELSE IF ~LeftHas(locations[p], variable)
       THEN /\ pc' = [pc EXCEPT ![p] = "error"]
            /\ UNCHANGED <<mem, chan, get_counts, local_gets>>
       ELSE /\ chan' = MPI_Send(chan, var_get, p, processor,
                         [var_id |-> LeftAt(locations[p], variable),
                          data_offset |-> offset * size,
                          count |-> count, size |-> size, target |-> target])
            /\ get_counts' = [get_counts EXCEPT ![p][processor] = @ + 1]
            /\ local_gets' = [local_gets EXCEPT ![p] = @ + 1]
            /\ UNCHANGED <<pc, mem>>
    /\ UNCHANGED <<locations, vars, put_counts, remote_puts, remote_gets,
                   queues, program, regLog, superstep, done, memSync, rcvd>>

\* internal_send_(processor, tag, content, tag_size, content_size): empty body
internal_send_(p, processor, tag, content) ==
    /\ CanIssue(p)
    /\ Log(p, Op("send", processor, 0, 0, 0, 0, content, tag))
    /\ UNCHANGED <<pc, mem, engine, chan, queues, program, regLog, superstep, done, memSync, rcvd>>

\* -------------------------------------------------------------------- sync
\* world.sync() is called: the peer arrives at the entry barrier.
SyncEnter(p) ==
    /\ pc[p] = "user"
    /\ superstep < MaxSteps
    /\ pc' = [pc EXCEPT ![p] = "barrier1"]
    /\ memSync' = [memSync EXCEPT ![p] = mem[p]]
    /\ rcvd' = [rcvd EXCEPT ![p] = <<>>]
    /\ UNCHANGED <<mem, engine, chan, queues, program, regLog, superstep, issued, done>>

\* MPI_Barrier at the entry of sync
EntryBarrier ==
    /\ \A p \in Procs : pc[p] = "barrier1"
    /\ pc' = [p \in Procs |-> "exchange"]
    /\ UNCHANGED <<mem, engine, chan, queues, program, regLog, superstep, issued, done, memSync, rcvd>>

\* faulty variant, used to test the properties: the peer's own counts are summed
Reduce_scatter_Own(counts, p) == SumOver([s \in Procs |-> counts[p][s]], Procs)

\* MPI_Reduce_scatter of put_counts_ and of get_counts_, block size 1, MPI_SUM
Reduce_scatter(counts, p) == SumOver([s \in Procs |-> counts[s][p]], Procs)

Exchange ==
    /\ \A p \in Procs : pc[p] = "exchange"
    /\ remote_puts' = [p \in Procs |-> Reduce_scatter(put_counts, p)]
    /\ remote_gets' = [p \in Procs |-> Reduce_scatter(get_counts, p)]
    /\ pc' = [p \in Procs |-> "drain"]
    /\ UNCHANGED <<mem, locations, vars, put_counts, get_counts, local_gets,
                   chan, queues, program, regLog, superstep, issued, done, memSync, rcvd>>

Received(tag, src, probed, f) ==
    [tag |-> tag, src |-> src, probed |-> probed, len |-> FrameLen(tag, f), frame |-> f]

\* faulty variant, used to test the properties: the received put is copied to the base of the region
ApplyPut_AtBase(m, base, f, n, junk) ==
    WriteBytes(m, base, SubSeq(f.data \o junk, 1, n))

\* the memcpy of a received put: n bytes from the receive buffer, of which the
\* frame filled Len(data); the rest of the malloc'ed buffer is indeterminate
ApplyPut(m, base, f, n, junk) ==
    WriteBytes(m, base + f.data_offset, SubSeq(f.data \o junk, 1, n))

\* one iteration of `while (remote_puts_ > 0)`: MPI_Probe(MPI_ANY_SOURCE),
\* MPI_Get_count, MPI_Recv(MPI_ANY_SOURCE), memcpy, --remote_puts_
RecvPut(p) ==
    /\ pc[p] = "drain"
    /\ remote_puts[p] > 0
    /\ \E probed \in Pending(var_put, p), src \in Pending(var_put, p) :
         LET count == FrameLen(var_put, Head(chan[var_put][p][probed]))
             f == Head(chan[var_put][p][src])
             n == count - sizeof_put_header
         IN /\ chan' = PopHead(chan, var_put, src, p)
            /\ rcvd' = [rcvd EXCEPT ![p] = Append(@, Received(var_put, src, count, f))]
            /\ IF FrameLen(var_put, f) > count
               THEN \* MPI_ERR_TRUNCATE under MPI_ERRORS_ARE_FATAL
                    /\ pc' = [pc EXCEPT ![p] = "abort"]
                    /\ UNCHANGED <<mem, remote_puts>>
               ELSE IF ~RightHas(locations[p], f.var_id)
               THEN \* locations_.right.at throws std::out_of_range
                    /\ pc' = [pc EXCEPT ![p] = "error"]
                    /\ UNCHANGED <<mem, remote_puts>>
               ELSE /\ \E junk \in [1 .. (n - Len(f.data)) -> Byte] :
                         mem' = [mem EXCEPT ![p] =
                             ApplyPut(@, RightAt(locations[p], f.var_id), f, n, junk)]
                    /\ remote_puts' = [remote_puts EXCEPT ![p] = @ - 1]
                    /\ UNCHANGED pc
    /\ UNCHANGED <<locations, vars, put_counts, get_counts, remote_gets,
                   local_gets, queues, program, regLog, superstep, issued, done, memSync>>

\* faulty variant, used to test the properties: the response is read from the base of the region
GetResponse_AtBase(m, base, f) ==
    [target |-> f.target, data_size |-> f.size * f.count,
     data |-> ReadBytes(m, base, f.size * f.count)]

\* the get response built for a received get frame
GetResponse(m, base, f) ==
    [target |-> f.target, data_size |-> f.size * f.count,
     data |-> ReadBytes(m, base + f.data_offset, f.size * f.count)]

\* faulty variant, used to test the properties: gets are serviced while puts are still owed
ServeGet_Early(p) ==
    /\ pc[p] = "drain"
    /\ remote_gets[p] > 0
    /\ \E probed \in Pending(var_get, p), src \in Pending(var_get, p) :
         LET count == FrameLen(var_get, Head(chan[var_get][p][probed]))
             f == Head(chan[var_get][p][src])
         IN /\ rcvd' = [rcvd EXCEPT ![p] = Append(@, Received(var_get, src, count, f))]
            /\ IF ~RightHas(locations[p], f.var_id)
               THEN /\ pc' = [pc EXCEPT ![p] = "error"]
                    /\ chan' = PopHead(chan, var_get, src, p)
                    /\ UNCHANGED remote_gets
               ELSE /\ chan' = MPI_Send(PopHead(chan, var_get, src, p),
                                 var_get_response, p, src,
                                 GetResponse(mem[p], RightAt(locations[p], f.var_id), f))
                    /\ remote_gets' = [remote_gets EXCEPT ![p] = @ - 1]
                    /\ UNCHANGED pc
    /\ UNCHANGED <<mem, locations, vars, put_counts, get_counts, remote_puts,
                   local_gets, queues, program, regLog, superstep, issued, done, memSync>>

\* one iteration of `while (remote_gets_ > 0)`: probe, receive, build the
\* response, MPI_Send it to status.MPI_SOURCE, --remote_gets_
ServeGet(p) ==
    /\ pc[p] = "drain"
    /\ remote_puts[p] = 0
    /\ remote_gets[p] > 0
    /\ \E probed \in Pending(var_get, p), src \in Pending(var_get, p) :
         LET count == FrameLen(var_get, Head(chan[var_get][p][probed]))
             f == Head(chan[var_get][p][src])
         IN /\ rcvd' = [rcvd EXCEPT ![p] = Append(@, Received(var_get, src, count, f))]
            /\ IF ~RightHas(locations[p], f.var_id)
               THEN /\ pc' = [pc EXCEPT ![p] = "error"]
                    /\ chan' = PopHead(chan, var_get, src, p)
                    /\ UNCHANGED remote_gets
               ELSE /\ chan' = MPI_Send(PopHead(chan, var_get, src, p),
                                 var_get_response, p, src,
                                 GetResponse(mem[p], RightAt(locations[p], f.var_id), f))
                    /\ remote_gets' = [remote_gets EXCEPT ![p] = @ - 1]
                    /\ UNCHANGED pc
    /\ UNCHANGED <<mem, locations, vars, put_counts, get_counts, remote_puts,
                   local_gets, queues, program, regLog, superstep, issued, done, memSync>>

\* faulty variant, used to test the properties: the barrier stands before the drain of gets
MidBarrier_BeforeGets ==
    /\ \A p \in Procs : pc[p] = "drain" /\ remote_puts[p] = 0
    /\ pc' = [p \in Procs |-> "responses"]
    /\ UNCHANGED <<mem, engine, chan, queues, program, regLog, superstep, issued, done, memSync, rcvd>>

\* MPI_Barrier between the drain of gets and the drain of get responses
MidBarrier ==
    /\ \A p \in Procs : pc[p] = "drain" /\ remote_puts[p] = 0 /\ remote_gets[p] = 0
    /\ pc' = [p \in Procs |-> "responses"]
    /\ UNCHANGED <<mem, engine, chan, queues, program, regLog, superstep, issued, done, memSync, rcvd>>

\* one iteration of `while (local_gets_ > 0)`: probe, receive,
\* memcpy(header.target, payload, header.data_size), --local_gets_
RecvResponse(p) ==
    /\ pc[p] = "responses"
    /\ local_gets[p] > 0
    /\ \E probed \in Pending(var_get_response, p), src \in Pending(var_get_response, p) :
         LET count == FrameLen(var_get_response, Head(chan[var_get_response][p][probed]))
             f == Head(chan[var_get_response][p][src])
         IN /\ chan' = PopHead(chan, var_get_response, src, p)
            /\ rcvd' = [rcvd EXCEPT ![p] =
                          Append(@, Received(var_get_response, src, count, f))]
            /\ IF FrameLen(var_get_response, f) > count
               THEN /\ pc' = [pc EXCEPT ![p] = "abort"]
                    /\ UNCHANGED <<mem, local_gets>>
               ELSE /\ mem' = [mem EXCEPT ![p] =
                                 WriteBytes(@, f.target, SubSeq(f.data, 1, f.data_size))]
                    /\ local_gets' = [local_gets EXCEPT ![p] = @ - 1]
                    /\ UNCHANGED pc
    /\ UNCHANGED <<locations, vars, put_counts, get_counts, remote_puts,
                   remote_gets, queues, program, regLog, superstep, issued, done, memSync>>

\* faulty variant, used to test the properties: the reset forgets get_counts_
Reset_KeepGetCounts(p) ==
    /\ pc[p] = "responses"
    /\ local_gets[p] = 0
    /\ put_counts' = [put_counts EXCEPT ![p] = [q \in Procs |-> 0]]
    /\ local_gets' = [local_gets EXCEPT ![p] = 0]
    /\ remote_puts' = [remote_puts EXCEPT ![p] = 0]
    /\ remote_gets' = [remote_gets EXCEPT ![p] = 0]
    /\ pc' = [pc EXCEPT ![p] = "barrier3"]
    /\ UNCHANGED <<mem, locations, vars, get_counts, chan, queues, program, regLog,
                   superstep, issued, done, memSync, rcvd>>

\* faulty variant, used to test the properties: the counters are filled with 1, as ones_ is
Reset_Ones(p) ==
    /\ pc[p] = "responses"
    /\ local_gets[p] = 0
    /\ put_counts' = [put_counts EXCEPT ![p] = [q \in Procs |-> 1]]
    /\ get_counts' = [get_counts EXCEPT ![p] = [q \in Procs |-> 1]]
    /\ local_gets' = [local_gets EXCEPT ![p] = 0]
    /\ remote_puts' = [remote_puts EXCEPT ![p] = 0]
    /\ remote_gets' = [remote_gets EXCEPT ![p] = 0]
    /\ pc' = [pc EXCEPT ![p] = "barrier3"]
    /\ UNCHANGED <<mem, locations, vars, chan, queues, program, regLog, superstep, issued, done,
                   memSync, rcvd>>

\* std::fill of the counters and the three scalars set to 0
Reset(p) ==
    /\ pc[p] = "responses"
    /\ local_gets[p] = 0
    /\ put_counts' = [put_counts EXCEPT ![p] = [q \in Procs |-> 0]]
    /\ get_counts' = [get_counts EXCEPT ![p] = [q \in Procs |-> 0]]
    /\ local_gets' = [local_gets EXCEPT ![p] = 0]
    /\ remote_puts' = [remote_puts EXCEPT ![p] = 0]
    /\ remote_gets' = [remote_gets EXCEPT ![p] = 0]
    /\ pc' = [pc EXCEPT ![p] = "barrier3"]
    /\ UNCHANGED <<mem, locations, vars, chan, queues, program, regLog, superstep, issued, done,
                   memSync, rcvd>>

\* faulty variant, used to test the properties: a peer leaves sync without waiting for the others
ExitBarrier_NoWait ==
    /\ \E p \in Procs : pc[p] = "barrier3"
    /\ pc' = [p \in Procs |-> IF pc[p] = "barrier3" THEN "user" ELSE pc[p]]
    /\ superstep' = superstep + 1
    /\ done' = Append(done, issued)
    /\ issued' = [p \in Procs |-> <<>>]
    /\ UNCHANGED <<mem, engine, chan, queues, program, regLog, memSync, rcvd>>

\* MPI_Barrier at the exit of sync: sync returns on every peer
ExitBarrier ==
    /\ \A p \in Procs : pc[p] = "barrier3"
    /\ pc' = [p \in Procs |-> "user"]
    /\ superstep' = superstep + 1
    /\ done' = Append(done, issued)
    /\ issued' = [p \in Procs |-> <<>>]
    /\ UNCHANGED <<mem, engine, chan, queues, program, regLog, memSync, rcvd>>

\* ------------------------------------------------------------- environment
\* The user programs the model runs.  `program` names the family the run
\* belongs to; in every family a peer may stop issuing and call sync at any
\* point, and every access stays inside the region it addresses.

\* (size, offset, count) of an access that stays inside a region
Shapes == {sh \in ElemSizes \X (0 .. (RegionLen - 1)) \X (1 .. RegionLen) :
              sh[1] * (sh[2] + sh[3]) <= RegionLen}

\* peer p has registered every variable, in the order of their addresses
Registered(p) == vars[p] >= NVars

\* communication starts once every peer has constructed its variables
Ready(p) == \A q \in Procs : Registered(q)

Others(p) == Procs \ {p}

SameAccess(a, b) ==
    <<a.variable, a.size, a.offset, a.count>> = <<b.variable, b.size, b.offset, b.count>>

Idle(log, S) == \A q \in S : log[q] = <<>>

\* the operations program lets peer p issue next
Allowed(p, op) ==
    CASE program = "ring" ->
           \* every peer: one put to, or one get from, next_processor, all
           \* on the same variable with the same shape
           /\ superstep = 0 /\ issued[p] = <<>>
           /\ op.kind \in {"put", "get"} /\ op.dst = next_processor(p)
           /\ op.kind = "get" => op.target = FutBase(0)
           /\ \A q \in Others(p) : issued[q] # <<>> => SameAccess(issued[q][1], op)
      [] program = "fanin" ->
           \* every peer but 0: one put to peer 0
           /\ superstep = 0 /\ issued[p] = <<>> /\ p # 0
           /\ op.kind = "put" /\ op.dst = 0
      [] program = "puts" ->
           \* peer 0: remote puts to next_processor
           /\ superstep = 0 /\ p = 0
           /\ op.kind = "put" /\ op.dst = next_processor(p)
      [] program = "self" ->
           \* peer 0: puts to and gets from itself, assignments of its local
           \* images, and messages
           /\ superstep = 0 /\ p = 0
           /\ op.kind \in {"put", "get", "write", "send"}
           /\ op.kind \in {"put", "get"} => op.dst = p
           /\ op.kind = "get" =>
                 op.target \in {FutBase(0), VarBase(NVars - 1)} \ {op.variable}
      [] program = "gets" ->
           \* peer 0: remote gets of variable 0 into successive futures; the
           \* other peers: one assignment of their whole image of variable 0
           /\ superstep = 0 /\ op.variable = VarBase(0)
           /\ IF p = 0
              THEN op.kind = "get" /\ op.dst # 0 /\ op.target = FutBase(Len(issued[p]))
              ELSE /\ op.kind = "write" /\ issued[p] = <<>>
                   /\ op.size = MaxElem /\ op.offset = 0
      [] program = "putget" ->
           \* first superstep: one remote put by peer 0, or assignments by the
           \* others; second superstep: one remote get by peer 0
           IF superstep = 0
           THEN /\ issued[p] = <<>>
                /\ IF p = 0 THEN op.kind = "put" /\ op.dst # 0
                   ELSE op.kind = "write" /\ op.size = MaxElem /\ op.offset = 0
                /\ Idle(issued, IF p = 0 THEN Others(0) ELSE {0})
           ELSE /\ p = 0 /\ issued[p] = <<>>
                /\ op.kind = "get" /\ op.dst # 0 /\ op.target = FutBase(0)
      [] program = "stale" ->
           \* peer 1: one put to, or one get from, peer 0, whose registry
           \* changes (see MayRegister)
           /\ superstep = 0 /\ p = 1 /\ issued[p] = <<>>
           /\ op.kind \in {"put", "get"} /\ op.dst = 0
           /\ op.kind = "get" => op.target = FutBase(0)
      [] program = "order" ->
           \* peer 1: two puts to the same bytes of peer 0; peer 2: one put
           \* to peer 0
           /\ superstep = 0 /\ op.kind = "put" /\ op.dst = 0
           /\ \/ p = 2 /\ issued[p] = <<>>
              \/ /\ p = 1
                 /\ issued[p] # <<>> =>
                       /\ op.variable = issued[p][1].variable
                       /\ op.size * op.offset = issued[p][1].size * issued[p][1].offset
                       /\ op.size * op.count = issued[p][1].size * issued[p][1].count
      [] program = "race" ->
           \* peer 1 puts into a range of peer 0 and peer 2 gets the same
           \* range of peer 0 in the same superstep
           /\ superstep = 0 /\ issued[p] = <<>> /\ op.dst = 0
           /\ \/ p = 1 /\ op.kind = "put"
              \/ p = 2 /\ op.kind = "get" /\ op.target = FutBase(0)
           /\ \A q \in Others(p) : issued[q] # <<>> => SameAccess(issued[q][1], op)

\* the registry calls program lets peer p make once the variables exist:
\* in "stale" peer 0 registers and unregisters its variables again while it
\* has issued nothing
MayRegister(p) ==
    /\ program = "stale" /\ p = 0 /\ superstep = 0
    /\ Len(regLog[p]) < NVars + MaxRegs

\* programs that run a second superstep
SyncsAgain == program \in {"ring", "putget"}

Setup(p) ==
    /\ ~Registered(p)
    /\ register_location_(p, VarBase(vars[p]))

Register(p) ==
    /\ Ready(p) /\ MayRegister(p)
    /\ \E location \in VarAddrs : register_location_(p, location)

Unregister(p) ==
    /\ Ready(p) /\ MayRegister(p)
    /\ \E location \in VarAddrs : unregister_location_(p, location)

Put(p) ==
    /\ Ready(p) /\ CanIssue(p)
    /\ \E dst \in Procs, variable \in VarAddrs, sh \in Shapes, v \in Vals :
          /\ Allowed(p, Op("put", dst, variable, sh[1], sh[2], sh[3], v, 0))
          /\ internal_put_(p, dst, v, variable, sh[1], sh[2], sh[3])

Get(p) ==
    /\ Ready(p) /\ CanIssue(p)
    /\ \E dst \in Procs, variable \in VarAddrs, target \in FutAddrs \cup VarAddrs,
          sh \in Shapes :
          /\ Allowed(p, Op("get", dst, variable, sh[1], sh[2], sh[3], 0, target))
          /\ internal_get_(p, dst, variable, target, sh[1], sh[2], sh[3])

Write(p) ==
    /\ Ready(p) /\ CanIssue(p)
    /\ \E variable \in VarAddrs, sh \in Shapes, v \in Vals :
          /\ sh[3] = 1
          /\ Allowed(p, Op("write", p, variable, sh[1], sh[2], 1, v, 0))
          /\ LocalWrite(p, variable, sh[1], sh[2], v)

Send(p) ==
    /\ Ready(p) /\ CanIssue(p)
    /\ \E dst \in Others(p), content \in Vals :
          /\ Allowed(p, Op("send", dst, 0, 0, 0, 0, content, 1))
          /\ internal_send_(p, dst, 1, content)

Sync(p) ==
    /\ Ready(p)
    /\ superstep = 0 \/ SyncsAgain
    /\ SyncEnter(p)

Next ==
    \/ \E p \in Procs : Setup(p)
    \/ \E p \in Procs : Register(p)
    \/ \E p \in Procs : Unregister(p)
    \/ \E p \in Procs : Put(p)
    \/ \E p \in Procs : Get(p)
    \/ \E p \in Procs : Write(p)
    \/ \E p \in Procs : Send(p)
    \/ \E p \in Procs : Sync(p)
    \/ EntryBarrier
    \/ Exchange
    \/ \E p \in Procs : RecvPut(p)
    \/ \E p \in Procs : ServeGet(p)
    \/ MidBarrier
    \/ \E p \in Procs : RecvResponse(p)
    \/ \E p \in Procs : Reset(p)
    \/ ExitBarrier

Spec == Init /\ [][Next]_vars_all

\* Every peer that is inside sync keeps executing it, MPI_Barrier and
\* MPI_Reduce_scatter complete once every peer has called them, and the
\* transport hands a pending frame to a peer that probes for it.  User code
\* is under no obligation to issue anything or to call sync.
Fairness ==
    /\ WF_vars_all(EntryBarrier)
    /\ WF_vars_all(Exchange)
    /\ WF_vars_all(MidBarrier)
    /\ WF_vars_all(ExitBarrier)
    /\ \A p \in Procs :
          /\ WF_vars_all(RecvPut(p))
          /\ WF_vars_all(ServeGet(p))
          /\ WF_vars_all(RecvResponse(p))
          /\ WF_vars_all(Reset(p))

FairSpec == Spec /\ Fairness

\* ================================================================== claims
\* sync has returned on p, and p has issued nothing since
Returned(p) == pc[p] = "user" /\ superstep >= 1 /\ issued[p] = <<>>

\* the bytes an operation addresses in the region it names, as addresses
Range(op) == {a \in Addr : /\ a >= op.variable + op.size * op.offset
                           /\ a < op.variable + op.size * (op.offset + op.count)}

\* the bytes of peer p's memory at the place operation op addresses
Image(m, op) == ReadBytes(m, op.variable + op.size * op.offset, op.size * op.count)

\* the bytes operation op carries
Payload(op) == Rep(op.val, op.size * op.count)

\* the remote puts of log addressed to peer q, as <<sender, index>>
PutsTo(log, q) ==
    {si \in Procs \X (1 .. MaxOps) :
        /\ si[2] <= Len(log[si[1]])
        /\ log[si[1]][si[2]].kind = "put"
        /\ log[si[1]][si[2]].dst = q
        /\ si[1] # q}

\* every peer issued exactly one operation, a put into the same variable at
\* next_processor
RingPut(log) ==
    /\ \A s \in Procs :
          /\ Len(log[s]) = 1
          /\ log[s][1].kind = "put"
          /\ log[s][1].dst = next_processor(s)
          /\ log[s][1].dst # s
    /\ \A s, t \in Procs : log[s][1].variable = log[t][1].variable

\* C1: when every peer s puts its value v_s into variable a at next(s) and
\* syncs, then once sync has returned on s the local image of a holds the
\* value of peer (s + P - 1) mod P.
C1_RingPut ==
    \A s \in Procs :
        (Returned(s) /\ RingPut(prev)) =>
            LET op == prev[prev_processor(s)][1]
            IN Image(mem[s], op) = Payload(op)

C1_Witness ==
    /\ \A s \in Procs : Returned(s)
    /\ RingPut(prev)
    /\ \E s \in Procs : prev[s][1].val # prev[next_processor(s)][1].val
    /\ \A s \in Procs : Image(mem[s], prev[prev_processor(s)][1]) # Image(memSync[s], prev[prev_processor(s)][1])

\* C2: while a peer executes user code, its memory changes only in steps in
\* which that peer itself issues an operation: a put that another peer has
\* issued in the superstep does not reach it before it enters sync.
C2_NoEarlyPut ==
    [][\A q \in Procs :
          (pc[q] = "user" /\ mem'[q] # mem[q]) => issued'[q] # issued[q]]_vars_all

\* a put frame addressed to q is in transit while q still executes user
\* code, and q's image differs from what the frame carries
C2_Witness ==
    \E q \in Procs, s \in Procs :
        /\ pc[q] = "user"
        /\ chan[var_put][q][s] # <<>>
        /\ LET f == Head(chan[var_put][q][s])
           IN ReadBytes(mem[q], RightAt(locations[q], f.var_id) + f.data_offset,
                        Len(f.data)) # f.data

\* the remote gets peer s issued in log, as indices into log[s]
GetsOf(log, s) ==
    {i \in 1 .. Len(log[s]) : log[s][i].kind = "get" /\ log[s][i].dst # s}

\* some operation of log writes the image of `variable` at peer q: a put
\* addressed to q (by any peer, q included) or an assignment by q
Written(log, q, variable) ==
    \E r \in Procs : \E op \in {log[r][i] : i \in 1 .. Len(log[r])} :
        /\ op.variable = variable
        /\ \/ op.kind = "put" /\ op.dst = q
           \/ op.kind = "write" /\ r = q

\* the bytes a get of peer s delivered into its destination
Delivered(s, op) == ReadBytes(mem[s], op.target, op.size * op.count)

\* no other get of the same peer in log has the same destination
OwnTarget(log, s, i) ==
    \A j \in GetsOf(log, s) \ {i} : log[s][j].target # log[s][i].target

\* C3: a remote get issued by s on a region of q that nobody writes during
\* the superstep delivers, once sync has returned on s, the value the region
\* held at q; in particular the value a remote put of the superstep before
\* wrote there.
C3_GetDelivers ==
    \A s \in Procs :
        Returned(s) =>
            \A i \in GetsOf(prev, s) :
                LET op == prev[s][i]
                    q == op.dst
                IN (~Written(prev, q, op.variable) /\ OwnTarget(prev, s, i)) =>
                      /\ Delivered(s, op) = Image(memSync[q], op)
                      /\ superstep = 2 =>
                            \A w \in PutsTo(done[1], q) :
                                LET put == done[1][w[1]][w[2]]
                                IN SameAccess(put, op) => Delivered(s, op) = Payload(put)

\* peer 0 has got back what it put into the region one superstep earlier,
\* while every other peer issued nothing
C3_Witness ==
    /\ superstep = 2 /\ Returned(0)
    /\ \E i \in GetsOf(prev, 0) : \E w \in PutsTo(done[1], prev[0][i].dst) :
          /\ SameAccess(done[1][w[1]][w[2]], prev[0][i])
          /\ Delivered(0, prev[0][i]) = Payload(done[1][w[1]][w[2]])
          /\ prev[0][i].size * prev[0][i].count = RegionLen
    /\ \A q \in Others(0) : done[1][q] = <<>> /\ done[2][q] = <<>>

\* the sync of peer p is over: it has returned, or it has ended in a fatal
\* transport error
SyncOver(p) == Returned(p) \/ pc[p] = "abort"

\* what the peers issued in the superstep that the sync of p ended
LogOf(p) == IF pc[p] = "abort" THEN issued ELSE prev

\* the frames of a category that p received in its last sync
Frames(p, tag) == SelectSeq(rcvd[p], LAMBDA r : r.tag = tag)

\* the remote puts of log addressed to peer q that name `variable`
PutInto(log, q, variable) ==
    \E w \in PutsTo(log, q) : log[w[1]][w[2]].variable = variable

\* the gets of p went to pairwise distinct destinations, and every one of
\* them was answered by exactly one response that its destination now holds
GetsAnswered(log, p) ==
    LET R == Frames(p, var_get_response)
    IN /\ Len(R) = Cardinality(GetsOf(log, p))
       /\ \A i \in GetsOf(log, p) :
             LET op == log[p][i]
             IN /\ Cardinality({k \in 1 .. Len(R) : R[k].frame.target = op.target}) = 1
                /\ \A k \in 1 .. Len(R) :
                      R[k].frame.target = op.target =>
                          /\ R[k].src = op.dst
                          /\ Delivered(p, op) = R[k].frame.data
                /\ ~PutInto(log, op.dst, op.variable) =>
                      Delivered(p, op) = Image(memSync[op.dst], op)

DistinctTargets(log, p) ==
    \A i, j \in GetsOf(log, p) : i # j => log[p][i].target # log[p][j].target

\* C4: a peer that issued k >= 1 remote gets with k distinct destinations has,
\* when its sync is over, received exactly k get responses, one per get, and
\* every destination holds the payload of the response to its own get.
C4_Claim ==
    \A p \in Procs :
        (SyncOver(p) /\ GetsOf(LogOf(p), p) # {} /\ DistinctTargets(LogOf(p), p)) =>
            GetsAnswered(LogOf(p), p)

\* the same, for gets whose responses all have one length
EqualLengths(log, p) ==
    \A i, j \in GetsOf(log, p) :
        log[p][i].size * log[p][i].count = log[p][j].size * log[p][j].count

C4_EqualLengths ==
    \A p \in Procs :
        (SyncOver(p) /\ GetsOf(LogOf(p), p) # {} /\ DistinctTargets(LogOf(p), p)
            /\ EqualLengths(LogOf(p), p)) =>
            GetsAnswered(LogOf(p), p)

\* the bytes of the registrable regions
VarBytes == 0 .. (NVars * RegionLen - 1)

\* no two remote puts of log addressed to q touch a common byte
DisjointPuts(log, q) ==
    \A w1, w2 \in PutsTo(log, q) :
        w1 # w2 => Range(log[w1[1]][w1[2]]) \cap Range(log[w2[1]][w2[2]]) = {}

\* every byte of q's regions holds what the put addressing it carried, and
\* what it held when q entered sync if no put addresses it
PutsApplied(log, q) ==
    \A a \in VarBytes :
        IF \E w \in PutsTo(log, q) : a \in Range(log[w[1]][w[2]])
        THEN \A w \in PutsTo(log, q) :
                LET op == log[w[1]][w[2]]
                IN a \in Range(op) =>
                      mem[q][a] = Payload(op)[a - (op.variable + op.size * op.offset) + 1]
        ELSE mem[q][a] = memSync[q][a]

\* C8: a remote put of element size e, offset o and count c changes exactly
\* the bytes [e*o, e*(o+c)) of the target region to the sender's payload and
\* no other byte of a registered region, also when puts of different payload
\* sizes are received in the same superstep.
C8_Claim ==
    \A q \in Procs :
        (Returned(q) /\ DisjointPuts(prev, q)) => PutsApplied(prev, q)

\* the same, for a receiver whose puts of the superstep all come from one peer
OneSender(log, q) == \A w1, w2 \in PutsTo(log, q) : w1[1] = w2[1]

C8_OneSender ==
    \A q \in Procs :
        (Returned(q) /\ DisjointPuts(prev, q) /\ OneSender(prev, q)) =>
            PutsApplied(prev, q)

\* peer s issued, in log, nothing but remote puts to d, exactly one into each
\* registered variable, and nobody else put anything to d
OnePutPerVariable(log, s, d) ==
    /\ s # d
    /\ Len(log[s]) = NVars
    /\ \A i \in 1 .. Len(log[s]) : log[s][i].kind = "put" /\ log[s][i].dst = d
    /\ \A v \in VarAddrs : \E i \in 1 .. Len(log[s]) : log[s][i].variable = v
    /\ OneSender(log, d)

\* C7: with the same k variables registered in the same order everywhere,
\* k remote puts of one peer, one into each variable at one destination,
\* arrive as exactly k put frames, the var id of each resolves at the
\* destination to the variable the sender addressed, and each image holds
\* the value put into that variable.
C7_PutMultiple ==
    \A s, d \in Procs :
        (Returned(d) /\ OnePutPerVariable(prev, s, d)) =>
            LET R == Frames(d, var_put)
            IN /\ Len(R) = NVars
               /\ \A i \in 1 .. NVars :
                     /\ RightAt(locations[d], R[i].frame.var_id) = prev[s][i].variable
                     /\ Image(mem[d], prev[s][i]) = Payload(prev[s][i])

C7_Witness ==
    \E s, d \in Procs :
        /\ Returned(d) /\ OnePutPerVariable(prev, s, d)
        /\ prev[s][1].variable = VarBase(1)
        /\ prev[s][1].val # prev[s][2].val
        /\ SameAccess([prev[s][1] EXCEPT !.variable = 0], [prev[s][2] EXCEPT !.variable = 0])

Ops(log, p) == {log[p][i] : i \in 1 .. Len(log[p])}

\* a step in which peer p issues operation op
Issues(p, op) == issued'[p] = Append(issued[p], op)

SelfOp(p, op) == op.kind \in {"put", "get"} /\ op.dst = p

Counters(p) == <<put_counts[p], get_counts[p], local_gets[p], remote_puts[p], remote_gets[p]>>

\* the bytes of its own memory that peer p writes when it issues op
Touched(p, op) ==
    IF op.kind = "write" \/ (op.kind = "put" /\ op.dst = p) THEN Range(op)
    ELSE IF op.kind = "get" /\ op.dst = p
    THEN {a \in Addr : a >= op.target /\ a < op.target + op.size * op.count}
    ELSE {}

\* no later operation of log[p] writes a byte that operation i addresses
LastOn(log, p, i) ==
    \A j \in (i + 1) .. Len(log[p]) :
        Touched(p, log[p][j]) \cap Range(log[p][i]) = {}

\* C5 (at the call): a put or get with dst == pid copies at once, sends no
\* frame and leaves every counter alone.
C5_AtTheCall ==
    [][\A p \in Procs : \A op \in Ops(issued', p) :
          (Issues(p, op) /\ SelfOp(p, op)) =>
              /\ chan' = chan
              /\ Counters(p)' = Counters(p)
              /\ pc'[p] = "user"
              /\ op.kind = "put" => Image(mem'[p], op) = Payload(op)
              /\ op.kind = "get" =>
                    ReadBytes(mem'[p], op.target, op.size * op.count) = Image(mem[p], op)]_vars_all

\* C5 (after the sync): what a put to self wrote is still in the region once
\* sync has returned, when nobody else wrote the region in that superstep.
C5_AfterSync ==
    \A p \in Procs :
        Returned(p) =>
            \A i \in 1 .. Len(prev[p]) :
                LET op == prev[p][i]
                IN (op.kind = "put" /\ op.dst = p /\ LastOn(prev, p, i)
                       /\ PutsTo(prev, p) = {}) =>
                      Image(mem[p], op) = Payload(op)

\* C5: a put or get with dst == pid is a direct local copy performed at the
\* call, still in place after the next sync, that sends no frame and leaves
\* put_count, get_count and local_gets unchanged.
C5_SelfCopy == C5_AtTheCall /\ []C5_AfterSync

C5_Witness ==
    \E p \in Procs :
        /\ Returned(p)
        /\ Len(prev[p]) = 2
        /\ prev[p][1].kind = "put" /\ prev[p][1].dst = p
        /\ prev[p][2].kind = "get" /\ prev[p][2].dst = p
        /\ SameAccess(prev[p][1], prev[p][2])
        /\ Delivered(p, prev[p][2]) = Payload(prev[p][1])
        /\ Image(mem[p], prev[p][1]) = Payload(prev[p][1])

\* the bytes of the regions peer p has registered
RegBytes(p) ==
    {a \in Addr : \E pr \in locations[p] : a >= pr[1] /\ a < pr[1] + RegionLen}

RegChanged(p) == \E a \in RegBytes(p) : mem'[p][a] # mem[p][a]

\* C6 as claimed: outside sync a registered region of a peer changes only by
\* that peer's own assignments, never by an operation of the engine.
C6_Claim ==
    [][\A p \in Procs :
          (pc[p] = "user" /\ RegChanged(p)) =>
              \E op \in Ops(issued', p) : Issues(p, op) /\ op.kind = "write"]_vars_all

\* C6 amended: outside sync a registered region of a peer changes only by
\* that peer's own assignments and by its own put or get with dst == pid,
\* which copy at the call; no other operation of the engine changes it.
C6_OnlySelfOps ==
    [][\A p \in Procs :
          (pc[p] = "user" /\ RegChanged(p)) =>
              \E op \in Ops(issued', p) :
                  Issues(p, op) /\ (op.kind = "write" \/ SelfOp(p, op))]_vars_all

\* a peer in user code whose put to itself is already in its region
C6_Witness ==
    \E p \in Procs :
        /\ pc[p] = "user" /\ superstep = 0
        /\ Len(issued[p]) = 1
        /\ issued[p][1].kind = "put" /\ issued[p][1].dst = p
        /\ Image(mem[p], issued[p][1]) = Payload(issued[p][1])

\* the sends of log addressed to peer d, as <<sender, index>>
SendsTo(log, d) ==
    {si \in Procs \X (1 .. MaxOps) :
        /\ si[2] <= Len(log[si[1]])
        /\ log[si[1]][si[2]].kind = "send"
        /\ log[si[1]][si[2]].dst = d}

\* C9: every message sent to a queue at a remote peer in a superstep is
\* readable there after the sync that ends the superstep and not before, and
\* the queue then holds exactly those messages.
C9_Claim ==
    \A d \in Procs :
        /\ superstep = 0 => queues[d] = <<>>
        /\ Returned(d) =>
              /\ Len(queues[d]) = Cardinality(SendsTo(prev, d))
              /\ \A w \in SendsTo(prev, d) :
                    \E k \in 1 .. Len(queues[d]) :
                        queues[d][k] = <<prev[w[1]][w[2]].target, prev[w[1]][w[2]].val>>

\* C10: after sync has returned on a peer and until it issues its next put
\* or get, every entry of put_counts and get_counts and local_gets,
\* remote_puts and remote_gets of that peer are zero.
NoPutOrGet(log, p) == \A op \in Ops(log, p) : op.kind \notin {"put", "get"}

C10_CountersZero ==
    \A p \in Procs :
        (pc[p] = "user" /\ superstep >= 1 /\ NoPutOrGet(issued, p)) =>
            /\ \A q \in Procs : put_counts[p][q] = 0 /\ get_counts[p][q] = 0
            /\ local_gets[p] = 0 /\ remote_puts[p] = 0 /\ remote_gets[p] = 0

\* sync has returned on a peer that had issued a remote put and a remote get
\* and had been the destination of a put
C10_Witness ==
    \E p \in Procs :
        /\ Returned(p)
        /\ GetsOf(prev, p) # {}
        /\ PutsTo(prev, p) # {}
        /\ \E q \in Others(p) : PutsTo(prev, q) # {}

\* every peer is inside sync
AllInSync == \A p \in Procs : pc[p] # "user"

\* every peer has called sync and waits at the entry barrier
AllCalledSync == \A p \in Procs : pc[p] = "barrier1"

AllReturned == \A p \in Procs : pc[p] = "user"

InTransit(tag, q) == SumOver([s \in Procs |-> Len(chan[tag][q][s])], Procs)

NothingInTransit == \A t \in Tags : \A q \in Procs : InTransit(t, q) = 0

\* C11 (no-op): no step of a sync that ends a superstep in which nobody
\* issued anything changes a region, the registry, a counter, a queue or the
\* frames in transit.
C11_NoOp ==
    [][(Idle(issued, Procs) /\ AllInSync) =>
          UNCHANGED <<mem, engine, chan, queues>>]_vars_all

\* C11 (returns): such a sync returns on every peer.
C11_Returns ==
    (Idle(issued, Procs) /\ AllCalledSync) ~> AllReturned

\* C11: a sync executed by all peers with nothing issued since the previous
\* sync returns on every peer and leaves regions, registry, counters and
\* frames in transit as they were, so consecutive such syncs leave the state
\* of one.
C11_QuietSync == C11_NoOp /\ C11_Returns

\* two syncs have returned, nobody issued anything in the second, and some
\* region holds a value
C11_Witness ==
    /\ superstep = 2 /\ AllReturned
    /\ Idle(prev, Procs)
    /\ \E p \in Procs : \E a \in Addr : mem[p][a] # 0
    /\ NothingInTransit

\* the registry calls of peer p, as indices into regLog[p]
Calls(p, call) == {i \in 1 .. Len(regLog[p]) : regLog[p][i].call = call}

\* C12: register_location on a base address that is already registered
\* fails (signals an error) instead of returning an id.
C12_Claim ==
    \A p \in Procs : \A i \in Calls(p, "register") :
        regLog[p][i].present => regLog[p][i].failed

\* C13: the ids register_location returns on one peer are strictly
\* increasing in call order, hence never returned twice, also after an
\* unregister and for a base that is registered again.
C13_IdsIncrease ==
    \A p \in Procs : \A i, j \in Calls(p, "register") :
        i < j => regLog[p][i].id < regLog[p][j].id

\* a base was registered, unregistered and registered again, and got a
\* new id
C13_Witness ==
    \E p \in Procs : \E i, k \in Calls(p, "register") : \E j \in Calls(p, "unregister") :
        /\ i < j /\ j < k
        /\ regLog[p][i].location = regLog[p][j].location
        /\ regLog[p][k].location = regLog[p][j].location
        /\ regLog[p][j].present /\ ~regLog[p][k].present
        /\ LeftHas(locations[p], regLog[p][k].location)
        /\ LeftAt(locations[p], regLog[p][k].location) = regLog[p][k].id

\* the ids peer p has unregistered
Unregistered(p) ==
    {regLog[p][i].id : i \in {j \in Calls(p, "unregister") : regLog[p][j].present}}

\* the step is a call of unregister_location_ by peer p
Unregisters(p) ==
    /\ regLog'[p] # regLog[p]
    /\ regLog'[p][Len(regLog'[p])].call = "unregister"

\* the step is the receipt by peer p of a PUT or GET frame naming an id
\* that p has unregistered
ReceivesStale(p) ==
    /\ rcvd'[p] # rcvd[p] /\ rcvd'[p] # <<>>
    /\ LET r == rcvd'[p][Len(rcvd'[p])]
       IN /\ r.tag \in {var_put, var_get}
          /\ r.frame.var_id \in Unregistered(p)

\* C14: unregister_location(base) removes both directions of the mapping,
\* and a PUT or GET frame received afterwards that names the id the base
\* had puts the receiver into an error state without any region being
\* written or read for it (no memory changes, no response is sent).
C14_StaleId ==
    [][\A p \in Procs :
          /\ Unregisters(p) =>
                LET c == regLog'[p][Len(regLog'[p])]
                IN /\ ~LeftHas(locations'[p], c.location)
                   /\ c.present => ~RightHas(locations'[p], c.id)
          /\ ReceivesStale(p) =>
                /\ pc'[p] = "error"
                /\ mem' = mem
                /\ chan'[var_get_response] = chan[var_get_response]]_vars_all

\* a peer has received a PUT frame naming an id it had unregistered, is in
\* the error state, and the base is registered again under a new id
C14_Witness ==
    \E p \in Procs :
        /\ pc[p] = "error" /\ rcvd[p] # <<>>
        /\ LET r == rcvd[p][Len(rcvd[p])]
           IN /\ r.tag = var_put
              /\ r.frame.var_id \in Unregistered(p)
              /\ ~RightHas(locations[p], r.frame.var_id)
        /\ mem[p] = memSync[p]
        /\ \E pr \in locations[p] : pr[2] >= NVars

C14_WitnessGet ==
    \E p \in Procs :
        /\ pc[p] = "error" /\ rcvd[p] # <<>>
        /\ LET r == rcvd[p][Len(rcvd[p])]
           IN r.tag = var_get /\ r.frame.var_id \in Unregistered(p)
        /\ NothingInTransit

\* the frames in transit under tag, as <<source, destination, frame>>
FramesInTransit(tag) ==
    {<<s, q, chan[tag][q][s][i]>> : <<s, q, i>> \in
        {x \in Procs \X Procs \X (1 .. MaxOps) : x[3] <= Len(chan[tag][x[2]][x[1]])}}

\* every PUT and GET frame in transit names an id registered at its
\* destination
NoStaleFrame ==
    \A t \in {var_put, var_get} : \A x \in FramesInTransit(t) :
        RightHas(locations[x[2]], x[3].var_id)

\* the PUT frames addressed to one peer have one length, and so have the
\* responses one peer is owed
OneLength ==
    /\ \A x, y \in FramesInTransit(var_put) :
          x[2] = y[2] => Len(x[3].data) = Len(y[3].data)
    /\ \A x, y \in FramesInTransit(var_get) :
          x[1] = y[1] => x[3].size * x[3].count = y[3].size * y[3].count

\* C15: if every peer calls sync, then under a fair transport that buffers
\* sent frames sync eventually returns on every peer, whatever puts and
\* gets were issued in the superstep.
C15_Claim == (AllCalledSync /\ NoStaleFrame) ~> AllReturned

\* the same, when the frames a peer receives under one tag have one length
C15_OneLength == (AllCalledSync /\ NoStaleFrame /\ OneLength) ~> AllReturned

\* no operation of log other than the puts of peer s writes a byte of
\* peer q that operation op addresses
OnlyWriter(log, s, q, op) ==
    /\ \A w \in PutsTo(log, q) :
          w[1] # s => Range(log[w[1]][w[2]]) \cap Range(op) = {}
    /\ \A i \in 1 .. Len(log[q]) : Touched(q, log[q][i]) \cap Range(op) = {}

\* C16: when one peer issues two remote puts to the same byte range of the
\* same region at the same destination in one superstep, after sync the
\* range holds the value of the put issued last.
C16_IssueOrder ==
    \A q \in Procs : \A s \in Others(q) :
        Returned(q) =>
            \A i, j \in 1 .. Len(prev[s]) :
                LET a == prev[s][i]
                    b == prev[s][j]
                IN (/\ i < j /\ j = Len(prev[s])
                    /\ a.kind = "put" /\ b.kind = "put" /\ a.dst = q /\ b.dst = q
                    /\ Range(a) = Range(b)
                    /\ OnlyWriter(prev, s, q, b)) =>
                      Image(mem[q], b) = Payload(b)

\* two puts of different values into the same bytes were applied, while
\* another peer put into other bytes of the same destination
C16_Witness ==
    \E q \in Procs : \E s \in Others(q) :
        /\ Returned(q) /\ Len(prev[s]) = 2
        /\ prev[s][1].kind = "put" /\ prev[s][2].kind = "put"
        /\ prev[s][1].dst = q /\ prev[s][2].dst = q
        /\ Range(prev[s][1]) = Range(prev[s][2])
        /\ Payload(prev[s][1]) # Payload(prev[s][2])
        /\ OnlyWriter(prev, s, q, prev[s][2])
        /\ \E w \in PutsTo(prev, q) : w[1] # s
        /\ Image(mem[q], prev[s][2]) = Payload(prev[s][2])

\* peer q has left the counter exchange and received nothing yet
JustExchanged(q) == pc[q] = "drain" /\ rcvd[q] = <<>>

\* C17: right after the counter exchange remote_puts (remote_gets) of peer q
\* is the number of PUT (GET) frames in transit addressed to q and the sum
\* over all senders of put_count[q] (get_count[q]).
C17_CountsMatch ==
    \A q \in Procs :
        JustExchanged(q) =>
            /\ remote_puts[q] = InTransit(var_put, q)
            /\ remote_gets[q] = InTransit(var_get, q)
            /\ remote_puts[q] = SumOver([s \in Procs |-> put_counts[s][q]], Procs)
            /\ remote_gets[q] = SumOver([s \in Procs |-> get_counts[s][q]], Procs)

\* a peer is owed a put by one peer and a get by another, and a peer that
\* sent one is owed nothing
C17_Witness ==
    \E q \in Procs : \E s \in Others(q) :
        /\ JustExchanged(q) /\ JustExchanged(s)
        /\ remote_puts[q] >= 1 /\ remote_gets[q] >= 1
        /\ put_counts[s][q] + get_counts[s][q] = 1
        /\ remote_puts[s] = 0 /\ remote_gets[s] = 0

\* peer p has passed the mid barrier and received no get response yet
AwaitsResponses(p) ==
    /\ pc[p] = "responses"
    /\ \A i \in 1 .. Len(rcvd[p]) : rcvd[p][i].tag # var_get_response

\* C18: when a peer has passed the mid barrier and not yet received a get
\* response, the GET_RESPONSE frames in transit addressed to it are as many
\* as its local_gets.
C18_ResponsesSent ==
    \A p \in Procs :
        AwaitsResponses(p) => InTransit(var_get_response, p) = local_gets[p]

\* a peer is owed two responses, from two different peers, and both are in
\* transit
C18_Witness ==
    \E p \in Procs :
        /\ AwaitsResponses(p) /\ local_gets[p] = 2
        /\ InTransit(var_get_response, p) = 2
        /\ Cardinality(Pending(var_get_response, p)) = 2

\* the step is the issue of a remote or local put or get by peer p
IssuesPutOrGet(p) ==
    /\ Len(issued'[p]) = Len(issued[p]) + 1
    /\ issued'[p][Len(issued'[p])].kind \in {"put", "get"}

\* peer q is inside sync, past the entry barrier and before the return of
\* the exit barrier
InsideSync(q) == pc[q] \in {"exchange", "drain", "responses", "barrier3", "abort"}

\* C19: no peer issues a put or get while another peer is inside a sync,
\* between its counter exchange and its exit barrier.
C19_NoIssueDuringSync ==
    [][\A p \in Procs :
          IssuesPutOrGet(p) => \A q \in Others(p) : ~InsideSync(q)]_vars_all

\* a peer has issued a get in the second superstep, after every peer left
\* the first sync, and another peer already waits in the next sync
C19_Witness ==
    \E p \in Procs : \E q \in Others(p) :
        /\ superstep = 1 /\ pc[p] = "user"
        /\ issued[p] # <<>> /\ issued[p][1].kind = "get"
        /\ pc[q] = "barrier1"
        /\ \E r \in Procs : done[1][r] # <<>>

\* C20: within one sync a peer receives every PUT frame before any GET
\* frame, so a remote get on a byte range that a remote put of the same
\* superstep also targets delivers the value written by that put.
C20_PutsBeforeGets ==
    /\ \A p \in Procs : \A i, j \in 1 .. Len(rcvd[p]) :
          (i < j /\ rcvd[p][i].tag = var_get) => rcvd[p][j].tag # var_put
    /\ \A s \in Procs :
          Returned(s) =>
              \A i \in GetsOf(prev, s) :
                  LET g == prev[s][i]
                      q == g.dst
                  IN \A w \in PutsTo(prev, q) :
                        LET put == prev[w[1]][w[2]]
                        IN (/\ PutsTo(prev, q) = {w}
                            /\ SameAccess(put, g)
                            /\ OnlyWriter(prev, w[1], q, put)
                            /\ OwnTarget(prev, s, i)) =>
                              Delivered(s, g) = Payload(put)

\* a get has delivered the value a put of the same superstep wrote, which
\* is not the value the range held when its owner entered sync
C20_Witness ==
    \E s \in Procs : Returned(s) /\ \E i \in GetsOf(prev, s) :
        LET g == prev[s][i]
            q == g.dst
        IN /\ OwnTarget(prev, s, i)
           /\ \E w \in PutsTo(prev, q) :
                 /\ PutsTo(prev, q) = {w}
                 /\ SameAccess(prev[w[1]][w[2]], g)
                 /\ Delivered(s, g) = Payload(prev[w[1]][w[2]])
           /\ Delivered(s, g) # Image(memSync[q], g)

\* C21 (length): every frame a peer has received in a drain loop has the
\* length the preceding probe reported.
C21_SameLength ==
    \A p \in Procs : \A i \in 1 .. Len(rcvd[p]) : rcvd[p][i].probed = rcvd[p][i].len

\* C21 (reply): the response to a GET frame is sent to the source of the
\* frame received, and to nobody else.
C21_ReplyToSource ==
    [][\A p \in Procs :
          (rcvd'[p] # rcvd[p] /\ rcvd'[p] # <<>>
             /\ rcvd'[p][Len(rcvd'[p])].tag = var_get /\ pc'[p] = "drain") =>
              LET r == rcvd'[p][Len(rcvd'[p])]
              IN \A q \in Procs : \A s \in Procs :
                    chan'[var_get_response][q][s] =
                        IF q = r.src /\ s = p
                        THEN Append(chan[var_get_response][q][s],
                                    GetResponse(mem[p], RightAt(locations[p], r.frame.var_id),
                                                r.frame))
                        ELSE chan[var_get_response][q][s]]_vars_all

\* C21: in each drain loop the receive takes the frame whose length the
\* probe reported, so the buffer sized from the probe has the length of the
\* frame received, also with frames of different lengths from different
\* senders pending; and each GET_RESPONSE goes to the source of the GET
\* frame received.
C21_Claim == []C21_SameLength /\ C21_ReplyToSource

\* the frames peer p received in its last sync under tag
ReceivedBy(p, tag) == {i \in 1 .. Len(rcvd[p]) : rcvd[p][i].tag = tag}

\* C22: when all peers have returned from the same sync and none has issued
\* an operation since, the transport holds no PUT, GET or GET_RESPONSE
\* frame: nothing sent in a superstep or in its sync is carried over.
C22_NothingCarriedOver ==
    (AllReturned /\ superstep >= 1 /\ Idle(issued, Procs)) => NothingInTransit

\* all peers have returned from a sync in which PUT, GET and GET_RESPONSE
\* frames were received, and the transport is empty
C22_Witness ==
    /\ AllReturned /\ superstep >= 1 /\ Idle(issued, Procs)
    /\ \E p \in Procs : ReceivedBy(p, var_put) # {}
    /\ \E p \in Procs : ReceivedBy(p, var_get) # {}
    /\ \E p \in Procs : ReceivedBy(p, var_get_response) # {}
    /\ NothingInTransit

====
